---- MODULE Spec2Model ----
(***************************************************************************)
(* A model of the weather command line client (package `weather`).         *)
(*                                                                         *)
(* main() runs three blocking lookups in sequence (ipify, ipapi.co,        *)
(* OpenWeatherMap), parses each reply and prints one report.  The model    *)
(* follows the control flow of main() with one action per urlopen call     *)
(* (the request leaving the process) and one per reply (everything the     *)
(* code does with the reply up to the next blocking call or to process     *)
(* exit).  Python functions are operators that return a result record:     *)
(* [exc |-> "none", val |-> v] for a normal return, [exc |-> kind] for a   *)
(* raised exception; try/except blocks are the IF tests on .exc.           *)
(*                                                                         *)
(* JSON objects are records whose DOMAIN is the set of keys present.       *)
(* Numbers that the code only carries around (latitude, longitude,         *)
(* temperature) are integers.  Python strings that the code inspects       *)
(* (the decimal string of the condition code) are sequences of one         *)
(* character strings.                                                      *)
(***************************************************************************)
EXTENDS Integers, Sequences, FiniteSets, TLC

VARIABLES
    pc,                \* position of main(): which call it is about to make or is blocked in
    requests,          \* the outbound requests issued so far, in order
    ip_data,           \* <<reply>> of the ipify urlopen, <<>> before it
    user_ip,           \* <<ip>> once _fetch_user_ip has returned
    coordinates_data,  \* <<reply>> of the ipapi.co urlopen
    coordinates,       \* <<Coordinates>> once fetch_user_coordinates has returned
    owm_response,      \* <<reply>> of the OpenWeatherMap urlopen
    weather,           \* <<Weather>> once get_weather has returned
    stdout,            \* what print() has written to standard output
    exit_code,         \* <<status>> once the process has terminated
    raised             \* the exception that ended the run, "none" otherwise

vars == <<pc, requests, ip_data, user_ip, coordinates_data, coordinates,
          owm_response, weather, stdout, exit_code, raised>>

----------------------------------------------------------------------------
(* Bounds of the model *)

\* condition codes -1 .. MaxCode are tried with an otherwise sound document
MaxCode == 901

\* codes of more than three digits, tried as well
ExtraCodes == {1000, 1800, 2100, 8000, 8001, 8010, 8100, 9800}

\* codes combined with every defect of the other fields
FewCodes == {100, 200, 800, 801, 900}

IpStrings == {"1.2.3.4", "2001:db8::1"}
Latitudes == {51, -33}
Longitudes == {0, 151}
CityNames == {"London", "Sydney"}
Temperatures == {15, -3}
SunTimes == {0, 1700000000, 1700030000}

----------------------------------------------------------------------------
(* Results of Python calls *)

Ok(v) == [exc |-> "none", val |-> v]

Raise(e) == [exc |-> e]

----------------------------------------------------------------------------
(* Replies of urlopen(...).read().decode(): a transport failure (URLError), *)
(* a body that is not JSON, or a body that is a JSON object                 *)

URLErrorReply == [kind |-> "URLError"]

MalformedBody == [kind |-> "malformed"]

ObjectBody(d) == [kind |-> "object", obj |-> d]

IpObjects ==
    {[ip |-> s] : s \in IpStrings} \cup {[message |-> "rate limited"]}

IpReplies == {URLErrorReply, MalformedBody} \cup {ObjectBody(d) : d \in IpObjects}

GeoBase == [city |-> "x"]

GeoObjects ==
    {GeoBase @@ la @@ lo :
        la \in {GeoBase} \cup {[latitude |-> v] : v \in Latitudes},
        lo \in {GeoBase} \cup {[longitude |-> v] : v \in Longitudes}}

GeoReplies == {URLErrorReply, MalformedBody} \cup {ObjectBody(d) : d \in GeoObjects}

OwmBase == [cod |-> 200]

WeatherItemBase == [description |-> "x"]

Codes == ((-1) .. MaxCode) \cup ExtraCodes

WeatherFields ==
    {OwmBase, [weather |-> <<>>], [weather |-> <<WeatherItemBase>>]}
    \cup {[weather |-> <<WeatherItemBase @@ [id |-> c]>>] : c \in Codes}

NameFields == {OwmBase} \cup {[name |-> n] : n \in CityNames}

MainBase == [humidity |-> 50]

MainFields ==
    {OwmBase, [main |-> MainBase]}
    \cup {[main |-> MainBase @@ [temp |-> t]] : t \in Temperatures}

SysBase == [country |-> "GB"]

SysFields ==
    {OwmBase, [sys |-> SysBase]}
    \cup {[sys |-> SysBase @@ [sunrise |-> t]] : t \in SunTimes}
    \cup {[sys |-> SysBase @@ [sunset |-> t]] : t \in SunTimes}
    \cup {[sys |-> SysBase @@ [sunrise |-> t] @@ [sunset |-> u]] :
            t \in SunTimes, u \in SunTimes}

\* the code of a weather field, -2 when it has none
CodeOfField(w) ==
    IF "weather" \in DOMAIN w /\ Len(w.weather) > 0 /\ "id" \in DOMAIN w.weather[1]
    THEN w.weather[1].id
    ELSE -2

BaseName == [name |-> "London"]

BaseMain == [main |-> MainBase @@ [temp |-> 15]]

BaseSys == [sys |-> SysBase @@ [sunrise |-> 1700000000] @@ [sunset |-> 1700030000]]

\* every code with the base fields; a few codes and the weather defects with
\* every combination of the other fields
OwmObjects ==
    {OwmBase @@ w @@ BaseName @@ BaseMain @@ BaseSys : w \in WeatherFields}
    \cup
    {OwmBase @@ w @@ n @@ m @@ s :
        w \in {f \in WeatherFields : CodeOfField(f) \in FewCodes \cup {-2}},
        n \in NameFields, m \in MainFields, s \in SysFields}

OwmReplies == {URLErrorReply, MalformedBody} \cup {ObjectBody(d) : d \in OwmObjects}

----------------------------------------------------------------------------
(* Library calls *)

\* json.loads: JSONDecodeError on a body that is not JSON, the parsed
\* object otherwise
json_loads(body) ==
    IF body.kind = "malformed" THEN Raise("JSONDecodeError") ELSE Ok(body.obj)

\* d[k] of a dict: KeyError when the key is absent
getitem(d, k) ==
    IF k \in DOMAIN d THEN Ok(d[k]) ELSE Raise("KeyError")

\* l[i] of a list (i counted from 0): IndexError when out of range
list_getitem(l, i) ==
    IF i < Len(l) THEN Ok(l[i + 1]) ELSE Raise("IndexError")

Digit == <<"0", "1", "2", "3", "4", "5", "6", "7", "8", "9">>

RECURSIVE DigitsOf(_)
DigitsOf(n) ==
    IF n < 10 THEN <<Digit[n + 1]>>
    ELSE DigitsOf(n \div 10) \o <<Digit[(n % 10) + 1]>>

\* str(n) of an int: its decimal digits, "-" first when negative
str(n) == IF n < 0 THEN <<"-">> \o DigitsOf(-n) ELSE DigitsOf(n)

\* s.startswith(p)
startswith(s, p) == Len(p) <= Len(s) /\ SubSeq(s, 1, Len(p)) = p

\* datetime.fromtimestamp(ts, tz=timezone.utc): the calendar day counted
\* from 1970-01-01 and the time of day
datetime_fromtimestamp(ts) ==
    [day    |-> ts \div 86400,
     hour   |-> (ts % 86400) \div 3600,
     minute |-> (ts % 3600) \div 60,
     second |-> ts % 60]

\* d.strftime('%H:%M')
strftime_HM(d) == <<d.hour, d.minute>>

----------------------------------------------------------------------------
(* coordinates.py *)

Coordinates(lat, lon) == [latitude |-> lat, longitude |-> lon]

IpifyUrl == [endpoint |-> "ipify", url |-> <<"https://api64.ipify.org?format=json">>]

_extract_ip_address(ip_body) ==
    LET loaded == json_loads(ip_body) IN
    IF loaded.exc = "JSONDecodeError" THEN Raise("GetCoordinatesError")
    ELSE getitem(loaded.val, "ip")

\* _fetch_user_ip with `except URLError: return "127.0.0.1"`: a transport
\* failure falls back to a default address
_fetch_user_ip_default(reply) ==
    LET r == IF reply.kind = "URLError" THEN Raise("URLError")
             ELSE _extract_ip_address(reply)
    IN  IF r.exc = "URLError" THEN Ok("127.0.0.1") ELSE r

\* the part of _fetch_user_ip after urlopen: reply is what urlopen and
\* read().decode() produced
_fetch_user_ip(reply) ==
    LET r == IF reply.kind = "URLError" THEN Raise("URLError")
             ELSE _extract_ip_address(reply)
    IN  IF r.exc = "URLError" THEN Raise("GetCoordinatesError") ELSE r

IpapiUrl(ip) == [endpoint |-> "ipapi", url |-> <<"https://ipapi.co/", ip, "/json/">>]

\* the part of _fetch_user_coordinates_data after urlopen
_fetch_user_coordinates_data(reply) ==
    LET r == IF reply.kind = "URLError" THEN Raise("URLError")
             ELSE json_loads(reply)
    IN  IF r.exc = "URLError" THEN Raise("GetCoordinatesError") ELSE r

\* the part of fetch_user_coordinates after the geolocation urlopen
fetch_user_coordinates(reply) ==
    LET data == _fetch_user_coordinates_data(reply) IN
    IF data.exc # "none" THEN data
    ELSE LET lat == getitem(data.val, "latitude")
             lon == getitem(data.val, "longitude")
         IN  IF lat.exc # "none" THEN lat
             ELSE IF lon.exc # "none" THEN lon
             ELSE Ok(Coordinates(lat.val, lon.val))

----------------------------------------------------------------------------
(* weather_api_service.py *)

Weather(t, c, temp, rise, set) ==
    [weather_type |-> t, city |-> c, temperature |-> temp,
     sunrise |-> rise, sunset |-> set]

OwmUrl(latitude, longitude) ==
    [endpoint |-> "owm", lat |-> latitude, lon |-> longitude,
     lang |-> "us", units |-> "metric"]

\* the part of _get_owm_response after urlopen
_get_owm_response(reply) ==
    IF reply.kind = "URLError" THEN Raise("ApiServiceError") ELSE Ok(reply)

\* the dict literal with "80" inserted before "800"
weather_types_reordered ==
    << [id |-> <<"1">>,           type |-> "THUNDERSHTORM"],
       [id |-> <<"3">>,           type |-> "DRIZZLE"],
       [id |-> <<"5">>,           type |-> "RAIN"],
       [id |-> <<"6">>,           type |-> "SNOW"],
       [id |-> <<"7">>,           type |-> "FOG"],
       [id |-> <<"8", "0">>,      type |-> "CLOUDS"],
       [id |-> <<"8", "0", "0">>, type |-> "CLEAR"] >>

\* the dict literal of _parse_weather_type, in its insertion order
weather_types ==
    << [id |-> <<"1">>,           type |-> "THUNDERSHTORM"],
       [id |-> <<"3">>,           type |-> "DRIZZLE"],
       [id |-> <<"5">>,           type |-> "RAIN"],
       [id |-> <<"6">>,           type |-> "SNOW"],
       [id |-> <<"7">>,           type |-> "FOG"],
       [id |-> <<"8", "0", "0">>, type |-> "CLEAR"],
       [id |-> <<"8", "0">>,      type |-> "CLOUDS"] >>

\* WeatherType(...).value
WeatherTypeValue ==
    [THUNDERSHTORM |-> "Thundershtorm", DRIZZLE |-> "Drizzle", RAIN |-> "Rain",
     SNOW |-> "Snow", CLEAR |-> "Clear", FOG |-> "Fog", CLOUDS |-> "Clouds"]

\* the for loop of _parse_weather_type from item i on
RECURSIVE weather_types_loop(_, _)
weather_types_loop(weather_type_id, i) ==
    IF i > Len(weather_types) THEN Raise("ApiServiceError")
    ELSE IF startswith(weather_type_id, weather_types[i].id)
         THEN Ok(weather_types[i].type)
         ELSE weather_types_loop(weather_type_id, i + 1)

\* owm_dict["weather"][0]["id"]
weather_id_lookup(owm_dict) ==
    LET w == getitem(owm_dict, "weather") IN
    IF w.exc # "none" THEN w
    ELSE LET first == list_getitem(w.val, 0) IN
         IF first.exc # "none" THEN first
         ELSE getitem(first.val, "id")

\* _parse_weather_type with `except KeyError` only: the IndexError of an
\* empty weather list is not mapped
_parse_weather_type_keyerror_only(owm_dict) ==
    LET id == weather_id_lookup(owm_dict) IN
    IF id.exc = "KeyError" THEN Raise("ApiServiceError")
    ELSE IF id.exc # "none" THEN id
    ELSE weather_types_loop(str(id.val), 1)

_parse_weather_type(owm_dict) ==
    LET id == weather_id_lookup(owm_dict) IN
    IF id.exc \in {"IndexError", "KeyError"} THEN Raise("ApiServiceError")
    ELSE weather_types_loop(str(id.val), 1)

_parse_city(owm_dict) ==
    LET r == getitem(owm_dict, "name") IN
    IF r.exc = "KeyError" THEN Raise("ApiServiceError") ELSE r

\* _parse_temperature with owm_dict.get("main", {}).get("temp", 0): an
\* absent temperature defaults to 0
_parse_temperature_default(owm_dict) ==
    LET m == getitem(owm_dict, "main")
        r == IF m.exc # "none" THEN m ELSE getitem(m.val, "temp")
    IN  IF r.exc = "KeyError" THEN Ok(0) ELSE r

_parse_temperature(owm_dict) ==
    LET m == getitem(owm_dict, "main")
        r == IF m.exc # "none" THEN m ELSE getitem(m.val, "temp")
    IN  IF r.exc = "KeyError" THEN Raise("ApiServiceError") ELSE r

\* _parse_sun_time reading the other of the two keys
_parse_sun_time_swapped(owm_dict, time) ==
    LET other == IF time = "sunrise" THEN "sunset" ELSE "sunrise"
        s == getitem(owm_dict, "sys")
        r == IF s.exc # "none" THEN s ELSE getitem(s.val, other)
    IN  IF r.exc = "KeyError" THEN Raise("ApiServiceError")
        ELSE Ok(datetime_fromtimestamp(r.val))

_parse_sun_time(owm_dict, time) ==
    LET s == getitem(owm_dict, "sys")
        r == IF s.exc # "none" THEN s ELSE getitem(s.val, time)
    IN  IF r.exc = "KeyError" THEN Raise("ApiServiceError")
        ELSE Ok(datetime_fromtimestamp(r.val))

_parse_owm_response(response) ==
    LET loaded == json_loads(response) IN
    IF loaded.exc = "JSONDecodeError" THEN Raise("ApiServiceError")
    ELSE LET owm_dict == loaded.val
             t    == _parse_weather_type(owm_dict)
             c    == _parse_city(owm_dict)
             temp == _parse_temperature(owm_dict)
             rise == _parse_sun_time(owm_dict, "sunrise")
             set  == _parse_sun_time(owm_dict, "sunset")
         IN  IF t.exc # "none" THEN t
             ELSE IF c.exc # "none" THEN c
             ELSE IF temp.exc # "none" THEN temp
             ELSE IF rise.exc # "none" THEN rise
             ELSE IF set.exc # "none" THEN set
             ELSE Ok(Weather(t.val, c.val, temp.val, rise.val, set.val))

\* the part of get_weather after the OpenWeatherMap urlopen
get_weather(reply) ==
    LET r == _get_owm_response(reply) IN
    IF r.exc # "none" THEN r ELSE _parse_owm_response(r.val)

----------------------------------------------------------------------------
(* formatter.py *)

\* the five values the template interpolates, in the order of the template
format_weather(w) ==
    [city        |-> w.city,
     condition   |-> WeatherTypeValue[w.weather_type],
     temperature |-> w.temperature,
     sunrise     |-> strftime_HM(w.sunrise),
     sunset      |-> strftime_HM(w.sunset)]

----------------------------------------------------------------------------
(* __main__.py *)

\* the except clauses with a bare `exit()`, which is status 0
main_except_exit0(exc, handled) ==
    IF exc = handled THEN [status |-> 0, caught |-> TRUE]
    ELSE [status |-> 1, caught |-> FALSE]

\* an `except handled: exit(1)` clause of main() meeting exception exc: the
\* clause exits with status 1 when it matches; an exception it does not
\* match leaves main() and the interpreter ends the process with a
\* traceback on standard error and status 1
main_except(exc, handled) ==
    IF exc = handled THEN [status |-> 1, caught |-> TRUE]
    ELSE [status |-> 1, caught |-> FALSE]

Init ==
    /\ pc = "fetch_user_ip"
    /\ requests = <<>>
    /\ ip_data = <<>>
    /\ user_ip = <<>>
    /\ coordinates_data = <<>>
    /\ coordinates = <<>>
    /\ owm_response = <<>>
    /\ weather = <<>>
    /\ stdout = <<>>
    /\ exit_code = <<>>
    /\ raised = "none"

\* the process ends on exception exc, met by the except clause for handled
Terminate(exc, handled) ==
    /\ pc' = "exited"
    /\ exit_code' = <<main_except(exc, handled).status>>
    /\ raised' = exc

\* _fetch_user_ip calls urlopen on the ipify URL
IpRequest ==
    /\ pc = "fetch_user_ip"
    /\ requests' = Append(requests, IpifyUrl)
    /\ pc' = "ip_wait"
    /\ UNCHANGED <<ip_data, user_ip, coordinates_data, coordinates,
                   owm_response, weather, stdout, exit_code, raised>>

\* the ipify urlopen returns or raises; _fetch_user_ip runs to its end
IpReply ==
    /\ pc = "ip_wait"
    /\ \E reply \in IpReplies :
        LET r == _fetch_user_ip(reply) IN
        /\ ip_data' = <<reply>>
        /\ IF r.exc = "none"
           THEN /\ user_ip' = <<r.val>>
                /\ pc' = "fetch_coordinates_data"
                /\ UNCHANGED <<exit_code, raised>>
           ELSE /\ Terminate(r.exc, "GetCoordinatesError")
                /\ UNCHANGED user_ip
    /\ UNCHANGED <<requests, coordinates_data, coordinates, owm_response,
                   weather, stdout>>

\* _fetch_user_coordinates_data calls urlopen on the ipapi.co URL
GeoRequest ==
    /\ pc = "fetch_coordinates_data"
    /\ requests' = Append(requests, IpapiUrl(user_ip[1]))
    /\ pc' = "geo_wait"
    /\ UNCHANGED <<ip_data, user_ip, coordinates_data, coordinates,
                   owm_response, weather, stdout, exit_code, raised>>

\* the ipapi.co urlopen returns or raises; fetch_user_coordinates runs to
\* its end
GeoReply ==
    /\ pc = "geo_wait"
    /\ \E reply \in GeoReplies :
        LET r == fetch_user_coordinates(reply) IN
        /\ coordinates_data' = <<reply>>
        /\ IF r.exc = "none"
           THEN /\ coordinates' = <<r.val>>
                /\ pc' = "get_weather"
                /\ UNCHANGED <<exit_code, raised>>
           ELSE /\ Terminate(r.exc, "GetCoordinatesError")
                /\ UNCHANGED coordinates
    /\ UNCHANGED <<requests, ip_data, user_ip, owm_response, weather, stdout>>

\* _get_owm_response calls urlopen on the OpenWeatherMap URL
OwmRequest ==
    /\ pc = "get_weather"
    /\ requests' = Append(requests,
                          OwmUrl(coordinates[1].latitude, coordinates[1].longitude))
    /\ pc' = "owm_wait"
    /\ UNCHANGED <<ip_data, user_ip, coordinates_data, coordinates,
                   owm_response, weather, stdout, exit_code, raised>>

\* OwmReply with _get_owm_response calling urlopen again after a URLError
OwmReply_retry ==
    /\ pc = "owm_wait"
    /\ \E reply \in OwmReplies :
        LET r == get_weather(reply) IN
        IF reply.kind = "URLError" /\ Len(requests) < 5
        THEN /\ pc' = "get_weather"
             /\ UNCHANGED <<owm_response, weather, exit_code, raised>>
        ELSE /\ owm_response' = <<reply>>
             /\ IF r.exc = "none"
                THEN /\ weather' = <<r.val>>
                     /\ pc' = "print"
                     /\ UNCHANGED <<exit_code, raised>>
                ELSE /\ Terminate(r.exc, "ApiServiceError")
                     /\ UNCHANGED weather
    /\ UNCHANGED <<requests, ip_data, user_ip, coordinates_data, coordinates,
                   stdout>>

\* the OpenWeatherMap urlopen returns or raises; get_weather runs to its end
OwmReply ==
    /\ pc = "owm_wait"
    /\ \E reply \in OwmReplies :
        LET r == get_weather(reply) IN
        /\ owm_response' = <<reply>>
        /\ IF r.exc = "none"
           THEN /\ weather' = <<r.val>>
                /\ pc' = "print"
                /\ UNCHANGED <<exit_code, raised>>
           ELSE /\ Terminate(r.exc, "ApiServiceError")
                /\ UNCHANGED weather
    /\ UNCHANGED <<requests, ip_data, user_ip, coordinates_data, coordinates,
                   stdout>>

\* print(format_weather(weather)); main() returns and the process ends with
\* status 0
PrintReport ==
    /\ pc = "print"
    /\ stdout' = Append(stdout, format_weather(weather[1]))
    /\ pc' = "exited"
    /\ exit_code' = <<0>>
    /\ UNCHANGED <<requests, ip_data, user_ip, coordinates_data, coordinates,
                   owm_response, weather, raised>>

Next ==
    \/ IpRequest
    \/ IpReply
    \/ GeoRequest
    \/ GeoReply
    \/ OwmRequest
    \/ OwmReply
    \/ PrintReport

Spec == Init /\ [][Next]_vars

----------------------------------------------------------------------------
(* Vocabulary of the properties, stated on the replies the run received    *)
(* and on what left the process, not on the operators above                *)

Replied(v) == v # <<>>

IsObject(v) == Replied(v) /\ v[1].kind = "object"

IsTransportFailure(v) == Replied(v) /\ v[1].kind = "URLError"

IsMalformed(v) == Replied(v) /\ v[1].kind = "malformed"

Keys(v) == DOMAIN v[1].obj

IpSound == IsObject(ip_data) /\ "ip" \in Keys(ip_data)

GeoSound ==
    IsObject(coordinates_data) /\ {"latitude", "longitude"} \subseteq Keys(coordinates_data)

\* the decimal numeral of c begins with the numeral of p: dropping some
\* number of trailing digits of c leaves p
NumeralBeginsWith(c, p) == c >= 0 /\ \E k \in 0 .. 9 : c \div (10 ^ k) = p

DeclaredPrefix == <<1, 3, 5, 6, 7, 800, 80>>

DeclaredCategory ==
    <<"THUNDERSHTORM", "DRIZZLE", "RAIN", "SNOW", "FOG", "CLEAR", "CLOUDS">>

Matching(c) == {i \in 1 .. 7 : NumeralBeginsWith(c, DeclaredPrefix[i])}

FirstMatching(c) == CHOOSE i \in Matching(c) : \A j \in Matching(c) : i <= j

HasCode(v) ==
    /\ IsObject(v)
    /\ "weather" \in Keys(v)
    /\ Len(v[1].obj.weather) > 0
    /\ "id" \in DOMAIN v[1].obj.weather[1]

CodeIn(v) == v[1].obj.weather[1].id

HasTemp(v) == "main" \in Keys(v) /\ "temp" \in DOMAIN v[1].obj.main

HasSun(v, key) == "sys" \in Keys(v) /\ key \in DOMAIN v[1].obj.sys

\* none of the field defects: weather[0].id, name, main.temp, sys.sunrise
\* and sys.sunset are all there
FieldsPresent(v) ==
    /\ HasCode(v)
    /\ "name" \in Keys(v)
    /\ HasTemp(v)
    /\ HasSun(v, "sunrise")
    /\ HasSun(v, "sunset")

OwmSound == IsObject(owm_response) /\ FieldsPresent(owm_response)
            /\ Matching(CodeIn(owm_response)) # {}

AllSound == IpSound /\ GeoSound /\ OwmSound

AnyFailed ==
    \/ Replied(ip_data) /\ ~IpSound
    \/ Replied(coordinates_data) /\ ~GeoSound
    \/ Replied(owm_response) /\ ~OwmSound

Endpoints == [i \in 1 .. Len(requests) |-> requests[i].endpoint]

Requested(e) == \E i \in 1 .. Len(requests) : requests[i].endpoint = e

Printed == stdout # <<>>

\* seconds since 1970-01-01T00:00:00Z of an instant
EpochOf(d) == d.day * 86400 + d.hour * 3600 + d.minute * 60 + d.second

----------------------------------------------------------------------------
(* Properties *)

\* C1: the stages run in the order IP lookup, geolocation lookup, weather
\* lookup, print, and a failed stage aborts the rest: the requests issued
\* are an initial part of ipify, ipapi, owm; the geolocation request is
\* issued only after a sound IP reply, the weather request only after sound
\* IP and geolocation replies, the report is printed only after all three
\* requests and a sound weather reply; and once a stage has failed the run
\* has ended with nothing issued beyond that stage.
C1_StagesInOrder ==
    /\ Endpoints = SubSeq(<<"ipify", "ipapi", "owm">>, 1, Len(requests))
    /\ Requested("ipapi") => IpSound
    /\ Requested("owm") => IpSound /\ GeoSound
    /\ Printed => Len(requests) = 3 /\ OwmSound
    /\ Replied(ip_data) /\ ~IpSound =>
            pc = "exited" /\ Len(requests) = 1 /\ ~Printed
    /\ Replied(coordinates_data) /\ ~GeoSound =>
            pc = "exited" /\ Len(requests) = 2 /\ ~Printed
    /\ Replied(owm_response) /\ ~OwmSound => pc = "exited" /\ ~Printed

C1_Witness ==
    /\ Replied(coordinates_data) /\ ~GeoSound
    /\ Endpoints = <<"ipify", "ipapi">>
    /\ pc = "exited"

\* C2: a transport failure (URLError) at any of the three stages ends the
\* process with exit code 1 and nothing printed.
C2_TransportFailureExits1 ==
    \A v \in {ip_data, coordinates_data, owm_response} :
        IsTransportFailure(v) =>
            pc = "exited" /\ exit_code = <<1>> /\ stdout = <<>>

C2_Witness ==
    /\ IsTransportFailure(owm_response)
    /\ exit_code = <<1>>

\* C3: for every code, _parse_weather_type gives the category of the first
\* of the prefixes 1, 3, 5, 6, 7, 800, 80 (in this order) that the decimal
\* numeral of the code begins with, and ApiServiceError when none does; 800
\* is Clear, 801 is Clouds, 500 is Rain and 900 fails.
C3_FirstPrefixWins ==
    HasCode(owm_response) =>
        LET c == CodeIn(owm_response)
            r == _parse_weather_type(owm_response[1].obj)
        IN  /\ Matching(c) = {} => r.exc = "ApiServiceError"
            /\ Matching(c) = {} => raised = "ApiServiceError" /\ weather = <<>>
            /\ Matching(c) # {} => r = Ok(DeclaredCategory[FirstMatching(c)])
            /\ Replied(weather) =>
                    /\ Matching(c) # {}
                    /\ weather[1].weather_type = DeclaredCategory[FirstMatching(c)]
            /\ c = 800 => r = Ok("CLEAR")
            /\ c = 801 => r = Ok("CLOUDS")
            /\ c = 500 => r = Ok("RAIN")
            /\ c = 900 => r.exc = "ApiServiceError"

C3_Witness ==
    /\ HasCode(owm_response)
    /\ CodeIn(owm_response) = 800
    /\ Replied(weather)
    /\ weather[1].weather_type = "CLEAR"

\* C4: a weather reply whose weather[0].id is 200 and whose other fields
\* are present yields a Weather of the Thunderstorm category, not an
\* ApiServiceError.
C4_Code200IsThunderstorm ==
    IsObject(owm_response) /\ FieldsPresent(owm_response)
    /\ CodeIn(owm_response) = 200 =>
        /\ Replied(weather)
        /\ weather[1].weather_type = "THUNDERSHTORM"
        /\ raised # "ApiServiceError"

\* C5: an IP reply that is not JSON, or is a JSON object without "ip",
\* makes the IP resolver fail with GetCoordinatesError and nothing else.
C5_IpParseFailureIsLookupError ==
    IsMalformed(ip_data) \/ (IsObject(ip_data) /\ "ip" \notin Keys(ip_data)) =>
        /\ raised = "GetCoordinatesError"
        /\ _fetch_user_ip(ip_data[1]) = Raise("GetCoordinatesError")

\* C6: a geolocation reply that is not JSON, or is a JSON object without
\* "latitude" or "longitude", makes fetch_user_coordinates fail with
\* GetCoordinatesError, which main catches.
C6_GeoParseFailureIsLookupError ==
    IsMalformed(coordinates_data)
    \/ (IsObject(coordinates_data) /\ ~GeoSound) =>
        /\ raised = "GetCoordinatesError"
        /\ main_except(raised, "GetCoordinatesError").caught
        /\ exit_code = <<1>>

\* C7: for a weather reply that is a JSON object, any of the field defects
\* (weather empty or absent, weather[0].id absent, name absent, main or
\* main.temp absent, sys, sys.sunrise or sys.sunset absent) makes
\* get_weather fail with ApiServiceError, and get_weather returns a Weather
\* only when there is no defect and the code matches a declared prefix.
C7_FieldDefectIsApiError ==
    /\ IsObject(owm_response) /\ ~FieldsPresent(owm_response) =>
            /\ raised = "ApiServiceError"
            /\ weather = <<>>
            /\ get_weather(owm_response[1]) = Raise("ApiServiceError")
    /\ Replied(weather) =>
            /\ IsObject(owm_response) /\ FieldsPresent(owm_response)
            /\ Matching(CodeIn(owm_response)) # {}

\* exactly one defect: the weather list is empty, all else is there
C7_Witness ==
    /\ IsObject(owm_response)
    /\ "weather" \in Keys(owm_response) /\ owm_response[1].obj.weather = <<>>
    /\ "name" \in Keys(owm_response)
    /\ HasTemp(owm_response)
    /\ HasSun(owm_response, "sunrise") /\ HasSun(owm_response, "sunset")
    /\ raised = "ApiServiceError"

\* the report the formatter owes for the weather reply of this run
OwedReport ==
    LET d == owm_response[1].obj IN
    [city        |-> d.name,
     condition   |-> WeatherTypeValue[DeclaredCategory[FirstMatching(CodeIn(owm_response))]],
     temperature |-> d.main.temp,
     sunrise     |-> <<(d.sys.sunrise \div 3600) % 24, (d.sys.sunrise \div 60) % 60>>,
     sunset      |-> <<(d.sys.sunset \div 3600) % 24, (d.sys.sunset \div 60) % 60>>]

\* C8: a report is printed iff all three lookups and all extractions
\* succeeded; the exit code is 0 exactly then and 1 whenever a stage
\* failed; what is printed is one complete report, never part of one.
C8_ReportIffAllSucceeded ==
    /\ Printed => AllSound /\ stdout = <<OwedReport>>
    /\ pc = "exited" =>
            /\ Printed <=> AllSound
            /\ exit_code = <<0>> <=> AllSound
            /\ exit_code \in {<<0>>, <<1>>}
    /\ pc # "exited" => exit_code = <<>>
    /\ AnyFailed => pc = "exited" /\ exit_code = <<1>> /\ ~Printed

C8_Witness ==
    /\ pc = "exited"
    /\ AllSound
    /\ exit_code = <<0>>
    /\ Len(stdout) = 1

\* C9: nothing is retried: each endpoint is requested at most once in a
\* run, and after the first failed request or parse step no further
\* request goes out.
C9_NoRetry ==
    /\ \A i, j \in 1 .. Len(requests) :
            requests[i].endpoint = requests[j].endpoint => i = j
    /\ Replied(ip_data) /\ ~IpSound => Len(requests) = 1
    /\ Replied(coordinates_data) /\ ~GeoSound => Len(requests) = 2
    /\ Replied(owm_response) /\ ~OwmSound => Len(requests) = 3
    /\ Len(requests) <= 3

C9_Witness ==
    /\ IsTransportFailure(owm_response)
    /\ Len(requests) = 3
    /\ pc = "exited"

\* C10: values pass from stage to stage unchanged: the geolocation request
\* carries exactly the ip of the IP reply, the weather request exactly the
\* latitude and longitude of the geolocation reply, and the Weather exactly
\* the reply's name, main.temp and the instants of sys.sunrise and
\* sys.sunset, each from its own key.
C10_ValuesHandedOnUnchanged ==
    /\ Replied(user_ip) => IpSound /\ user_ip[1] = ip_data[1].obj.ip
    /\ Requested("ipapi") =>
            requests[2].url = <<"https://ipapi.co/", ip_data[1].obj.ip, "/json/">>
    /\ Replied(coordinates) =>
            /\ GeoSound
            /\ coordinates[1].latitude = coordinates_data[1].obj.latitude
            /\ coordinates[1].longitude = coordinates_data[1].obj.longitude
    /\ Requested("owm") =>
            /\ requests[3].lat = coordinates_data[1].obj.latitude
            /\ requests[3].lon = coordinates_data[1].obj.longitude
    /\ Replied(weather) =>
            /\ OwmSound
            /\ weather[1].city = owm_response[1].obj.name
            /\ weather[1].temperature = owm_response[1].obj.main.temp
            /\ EpochOf(weather[1].sunrise) = owm_response[1].obj.sys.sunrise
            /\ EpochOf(weather[1].sunset) = owm_response[1].obj.sys.sunset

C10_Witness ==
    /\ Replied(weather)
    /\ owm_response[1].obj.sys.sunrise # owm_response[1].obj.sys.sunset
    /\ coordinates_data[1].obj.latitude # coordinates_data[1].obj.longitude
    /\ Len(requests) = 3

====
